---- MODULE Spec2Model ----
(***************************************************************************)
(* Model of bentoml_deploy/bento_packer.py: a straight-line script that    *)
(* imports IrisClassifier and clf from one of two module locations, builds *)
(* one service instance, packs clf under the slot 'model' and saves it.    *)
(*                                                                         *)
(* Every statement of the script is one action.  Each statement calls into *)
(* code outside the script (module bodies, the service class); such a call *)
(* either returns or raises one of Causes, chosen by the environment.      *)
(***************************************************************************)
EXTENDS Naturals, Sequences, FiniteSets

\* ---------------------------------------------------------------- bounds
MaxPathLen == 2      \* longest path the save operation may report
MaxInitFiles == 1    \* files already on disk before the script starts
MaxTrace == 8        \* cap on the number of statements executed in a run

\* ------------------------------------------------------------- value sets
PathAlphabet == {"a", "b"}
Paths == UNION {[1..n -> PathAlphabet] : n \in 0..MaxPathLen}
NonEmptyPaths == {p \in Paths : Len(p) > 0}

\* Exception classes a call may raise.  KeyboardInterrupt is a BaseException
\* that is not an Exception; the other two are ordinary Exceptions.
Causes == {"ImportError", "OSError", "KeyboardInterrupt"}
Returned == "returned"
Outcomes == {Returned} \cup Causes
NoError == "none"

Unbound == [kind |-> "unbound"]
SlotName == "model"

FirstLocation == 1     \* bento_service, train
SecondLocation == 2    \* bentoml_deploy.bento_service, bentoml_deploy.train

ImportSteps == {"import1_class", "import1_clf", "import2_class", "import2_clf"}
TrySteps == {"import1_class", "import1_clf"}
Steps == ImportSteps \cup {"construct", "pack", "save"}

VARIABLES
    pc,                       \* statement about to run, or "done" / "failed"
    IrisClassifier,           \* module-level name bound by lines 5 / 8
    clf,                      \* module-level name bound by lines 6 / 9
    iris_classifier_service,  \* module-level name bound by line 12
    saved_path,               \* module-level name bound by line 18
    fs,                       \* paths that exist on disk
    written,                  \* paths persisted by this run
    error,                    \* exception that ended the run, if any
    trace                     \* history: statements executed, with outcome

vars == <<pc, IrisClassifier, clf, iris_classifier_service, saved_path,
          fs, written, error, trace>>

\* ------------------------------------------------------ control structure

\* Variants of Successor: the script with the save statement left out, with
\* save placed before pack, and with the save statement repeated.
SuccessorSkipSave(step) ==
    CASE step = "import1_class" -> "import1_clf"
      [] step = "import1_clf"   -> "construct"
      [] step = "import2_class" -> "import2_clf"
      [] step = "import2_clf"   -> "construct"
      [] step = "construct"     -> "pack"
      [] step = "pack"          -> "done"
      [] step = "save"          -> "done"

SuccessorSaveBeforePack(step) ==
    CASE step = "import1_class" -> "import1_clf"
      [] step = "import1_clf"   -> "construct"
      [] step = "import2_class" -> "import2_clf"
      [] step = "import2_clf"   -> "construct"
      [] step = "construct"     -> "save"
      [] step = "save"          -> "pack"
      [] step = "pack"          -> "done"

SuccessorSaveAgain(step) ==
    CASE step = "import1_class" -> "import1_clf"
      [] step = "import1_clf"   -> "construct"
      [] step = "import2_class" -> "import2_clf"
      [] step = "import2_clf"   -> "construct"
      [] step = "construct"     -> "pack"
      [] step = "pack"          -> "save"
      [] step = "save"          -> IF saved_path = Unbound THEN "save" ELSE "done"

\* Statement that follows `step` when it completes normally.
Successor(step) ==
    CASE step = "import1_class" -> "import1_clf"
      [] step = "import1_clf"   -> "construct"
      [] step = "import2_class" -> "import2_clf"
      [] step = "import2_clf"   -> "construct"
      [] step = "construct"     -> "pack"
      [] step = "pack"          -> "save"
      [] step = "save"          -> "done"

\* Variant of Catches: `except ImportError:` in place of the bare clause.
CatchesImportErrorOnly(cause) == cause = "ImportError"

\* The bare `except:` clause matches every exception class.
Catches(cause) == TRUE

\* Variants of OnRaise: a failing statement outside the try block is run
\* again; the handler re-imports only the name whose import failed; a
\* failure outside the try block starts the script over.
OnRaiseRetry(step, cause) ==
    IF step \in TrySteps /\ Catches(cause) THEN "import2_class" ELSE step

OnRaiseResume(step, cause) ==
    IF step \in TrySteps /\ Catches(cause)
    THEN (IF step = "import1_clf" THEN "import2_clf" ELSE "import2_class")
    ELSE "failed"

OnRaiseRestart(step, cause) ==
    IF step \in TrySteps /\ Catches(cause) THEN "import2_class" ELSE "import1_class"

\* Where control goes when `step` raises `cause`.
OnRaise(step, cause) ==
    IF step \in TrySteps /\ Catches(cause) THEN "import2_class" ELSE "failed"

\* Variant of BindSavedPath: the name is bound before the call is made.
BindSavedPathAlways(outcome, ret, old) == [kind |-> "str", value |-> ret]

\* Binding of saved_path by the assignment on line 18.
BindSavedPath(outcome, ret, old) ==
    IF outcome = Returned THEN [kind |-> "str", value |-> ret] ELSE old

\* ------------------------------------------------- framework behaviour

\* IrisClassifier(): a fresh instance with no artifact packed.
NewInstance(cls) == [kind |-> "instance", class |-> cls, artifacts |-> {}]

\* instance.pack(name, obj): the instance owns obj under the slot `name`.
PackArtifact(inst, name, obj) ==
    [inst EXCEPT !.artifacts =
        {a \in inst.artifacts : a[1] # name} \cup {<<name, obj>>}]

\* A service that save() can serialise: a valid class holding a valid model.
Servable(inst) ==
    /\ inst.kind = "instance"
    /\ inst.class.valid
    /\ \E a \in inst.artifacts : a[1] = SlotName /\ a[2].valid

\* Results of a save() that returns: the reported path and the paths it wrote.
\* A servable instance is written to a non-empty location of the framework's
\* choosing; for anything else the call may report any path and write or not.
SaveResults(inst) ==
    IF Servable(inst)
    THEN {[ret |-> p, wrote |-> {p}] : p \in NonEmptyPaths}
    ELSE {[ret |-> p, wrote |-> w] : p \in Paths, w \in {{}}}
         \cup {[ret |-> p, wrote |-> {p}] : p \in NonEmptyPaths}

\* ------------------------------------------------------------ history
Count(step) == Cardinality({i \in DOMAIN trace : trace[i].step = step})

CountReturned(step) ==
    Cardinality({i \in DOMAIN trace :
                    trace[i].step = step /\ trace[i].outcome = Returned})

Log(step, outcome) == Append(trace, [step |-> step, outcome |-> outcome])

\* ------------------------------------------------------------ initial
Init ==
    /\ pc = "import1_class"
    /\ IrisClassifier = Unbound
    /\ clf = Unbound
    /\ iris_classifier_service = Unbound
    /\ saved_path = Unbound
    /\ fs \in {f \in SUBSET NonEmptyPaths : Cardinality(f) <= MaxInitFiles}
    /\ written = {}
    /\ error = NoError
    /\ trace = <<>>

\* ------------------------------------------------------------ actions

\* Common shape of a statement that raised.
Raise(step, cause) ==
    /\ pc' = OnRaise(step, cause)
    /\ error' = IF OnRaise(step, cause) = "failed" THEN cause ELSE error
    /\ trace' = Log(step, cause)

\* `from <location> import IrisClassifier`
ImportClass(step, loc) ==
    /\ pc = step
    /\ Len(trace) < MaxTrace
    /\ \E outcome \in Outcomes :
         IF outcome = Returned
         THEN /\ \E v \in BOOLEAN :
                   IrisClassifier' = [kind |-> "class", loc |-> loc, valid |-> v]
              /\ pc' = Successor(step)
              /\ trace' = Log(step, Returned)
              /\ UNCHANGED error
         ELSE /\ Raise(step, outcome)
              /\ UNCHANGED IrisClassifier
    /\ UNCHANGED <<clf, iris_classifier_service, saved_path, fs, written>>

\* `from <location> import clf`
ImportClf(step, loc) ==
    /\ pc = step
    /\ Len(trace) < MaxTrace
    /\ \E outcome \in Outcomes :
         IF outcome = Returned
         THEN /\ \E v \in BOOLEAN :
                   clf' = [kind |-> "model", loc |-> loc, valid |-> v]
              /\ pc' = Successor(step)
              /\ trace' = Log(step, Returned)
              /\ UNCHANGED error
         ELSE /\ Raise(step, outcome)
              /\ UNCHANGED clf
    /\ UNCHANGED <<IrisClassifier, iris_classifier_service, saved_path, fs, written>>

ImportClassFirst == ImportClass("import1_class", FirstLocation)
ImportClfFirst == ImportClf("import1_clf", FirstLocation)
ImportClassSecond == ImportClass("import2_class", SecondLocation)
ImportClfSecond == ImportClf("import2_clf", SecondLocation)

\* iris_classifier_service = IrisClassifier()
Construct ==
    /\ pc = "construct"
    /\ Len(trace) < MaxTrace
    /\ \E outcome \in Outcomes :
         IF outcome = Returned
         THEN /\ iris_classifier_service' = NewInstance(IrisClassifier)
              /\ pc' = Successor("construct")
              /\ trace' = Log("construct", Returned)
              /\ UNCHANGED error
         ELSE /\ Raise("construct", outcome)
              /\ UNCHANGED iris_classifier_service
    /\ UNCHANGED <<IrisClassifier, clf, saved_path, fs, written>>

\* iris_classifier_service.pack('model', clf)
Pack ==
    /\ pc = "pack"
    /\ Len(trace) < MaxTrace
    /\ \E outcome \in Outcomes :
         IF outcome = Returned
         THEN /\ iris_classifier_service' =
                    PackArtifact(iris_classifier_service, SlotName, clf)
              /\ pc' = Successor("pack")
              /\ trace' = Log("pack", Returned)
              /\ UNCHANGED error
         ELSE /\ Raise("pack", outcome)
              /\ UNCHANGED iris_classifier_service
    /\ UNCHANGED <<IrisClassifier, clf, saved_path, fs, written>>

\* saved_path = iris_classifier_service.save()
Save ==
    /\ pc = "save"
    /\ Len(trace) < MaxTrace
    /\ \E outcome \in Outcomes :
         IF outcome = Returned
         THEN /\ \E r \in SaveResults(iris_classifier_service) :
                   /\ saved_path' = BindSavedPath(Returned, r.ret, saved_path)
                   /\ fs' = fs \cup r.wrote
                   /\ written' = written \cup r.wrote
              /\ pc' = Successor("save")
              /\ trace' = Log("save", Returned)
              /\ UNCHANGED error
         ELSE /\ Raise("save", outcome)
              /\ saved_path' = BindSavedPath(outcome, <<>>, saved_path)
              \* a save that raises may leave files behind
              /\ \E left \in {{}} \cup {{p} : p \in NonEmptyPaths} :
                   fs' = fs \cup left
              /\ UNCHANGED written
    /\ UNCHANGED <<IrisClassifier, clf, iris_classifier_service>>

Next ==
    \/ ImportClassFirst
    \/ ImportClfFirst
    \/ ImportClassSecond
    \/ ImportClfSecond
    \/ Construct
    \/ Pack
    \/ Save

Spec == Init /\ [][Next]_vars

\* Every call returns or raises, so an enabled statement is eventually run.
LiveSpec == Spec /\ WF_vars(Next)

\* ============================================================ properties

Terminal == {"done", "failed"}
LastStep == IF trace = <<>> THEN "none" ELSE trace[Len(trace)].step
LastOutcome == IF trace = <<>> THEN "none" ELSE trace[Len(trace)].outcome
RaisedAt(step) ==
    \E i \in DOMAIN trace : trace[i].step = step /\ trace[i].outcome # Returned
FirstSucceeded ==
    CountReturned("import1_class") = 1 /\ CountReturned("import1_clf") = 1
ValidInputs ==
    /\ IrisClassifier.kind = "class" /\ IrisClassifier.valid
    /\ clf.kind = "model" /\ clf.valid
Rank(p) ==
    CASE p = "import1_class" -> 1
      [] p = "import1_clf"   -> 2
      [] p = "import2_class" -> 3
      [] p = "import2_clf"   -> 4
      [] p = "construct"     -> 5
      [] p = "pack"          -> 6
      [] p = "save"          -> 7
      [] p \in Terminal      -> 8

\* C1: a run that completes with a valid service class and a valid model has
\* persisted exactly one artifact, and saved_path is a non-empty path that
\* exists on disk when the script finishes.
C1_ValidRunPersistsOneArtifact ==
    (pc = "done" /\ ValidInputs) =>
        /\ Cardinality(written) = 1
        /\ saved_path.kind = "str"
        /\ saved_path.value # <<>>
        /\ saved_path.value \in fs
        /\ saved_path.value \in written

C1_Witness ==
    /\ pc = "done" /\ ValidInputs
    /\ saved_path.kind = "str" /\ saved_path.value \in fs

\* C2: whenever a first-location import raises, whatever the exception class,
\* the next statement run is the first import of the second location and the
\* run has not failed.
C2_FallbackOnAnyCause ==
    \A i \in DOMAIN trace :
        (trace[i].step \in TrySteps /\ trace[i].outcome # Returned) =>
            /\ IF i = Len(trace)
               THEN pc = "import2_class"
               ELSE trace[i + 1].step = "import2_class"
            /\ (i = Len(trace) => error = NoError)

C2_Witness ==
    /\ \E i \in DOMAIN trace :
         trace[i].step = "import1_clf" /\ trace[i].outcome = "KeyboardInterrupt"
    /\ Count("import2_class") = 1

\* C3: a statement outside the try block that raises is the last statement of
\* the run, which ends failed with that exception; no statement outside the
\* try block runs more than once.
C3_FailurePropagates ==
    /\ \A i \in DOMAIN trace :
         (trace[i].step \notin TrySteps /\ trace[i].outcome # Returned) =>
             /\ i = Len(trace)
             /\ pc = "failed"
             /\ error = trace[i].outcome
    /\ \A s \in Steps \ TrySteps : Count(s) <= 1

C3_Witness ==
    /\ pc = "failed" /\ LastStep = "pack" /\ error = "OSError"
    /\ Count("import2_clf") = 1

\* C4: construct, pack and save run in that order on one instance: a pack is
\* preceded by the one completed construct, a save by the one completed pack,
\* and from the completed pack on the instance holds clf under the slot
\* 'model' and nothing else.
C4_ConstructPackSaveOrder ==
    /\ Count("construct") <= 1
    /\ \A i \in DOMAIN trace :
         /\ trace[i].step = "pack" =>
               /\ i > 1
               /\ trace[i - 1] = [step |-> "construct", outcome |-> Returned]
         /\ trace[i].step = "save" =>
               /\ i > 2
               /\ trace[i - 1] = [step |-> "pack", outcome |-> Returned]
               /\ trace[i - 2] = [step |-> "construct", outcome |-> Returned]
         /\ trace[i].step = "construct" =>
               /\ i > 1
               /\ trace[i - 1].step \in {"import1_clf", "import2_clf"}
               /\ trace[i - 1].outcome = Returned
    /\ Count("save") > 0 =>
         /\ iris_classifier_service.kind = "instance"
         /\ iris_classifier_service.class = IrisClassifier
         /\ clf.kind = "model"
         /\ iris_classifier_service.artifacts = {<<SlotName, clf>>}

C4_Witness ==
    /\ pc = "done"
    /\ Count("import2_class") = 1
    /\ iris_classifier_service.artifacts = {<<SlotName, clf>>}

\* C5: save is invoked at most once in a run, and exactly once in a run that
\* reaches the end.
C5_SaveAtMostOnce ==
    /\ Count("save") <= 1
    /\ pc = "done" => Count("save") = 1

C5_Witness ==
    /\ pc = "done" /\ Count("save") = 1
    /\ FirstSucceeded

\* C6: once the imports are over, IrisClassifier and clf come from the same
\* location: the first one exactly when both first-location imports returned,
\* in which case the second location was never attempted.
C6_SameImportLocation ==
    /\ (pc \in {"construct", "pack", "save", "done"} \/ Count("construct") > 0) =>
         /\ IrisClassifier.kind = "class"
         /\ clf.kind = "model"
         /\ IrisClassifier.loc = clf.loc
         /\ IrisClassifier.loc = FirstLocation <=> FirstSucceeded
         /\ IrisClassifier.loc = SecondLocation <=> ~FirstSucceeded
    /\ iris_classifier_service.kind = "instance" =>
         /\ iris_classifier_service.class.loc = clf.loc
         /\ \A a \in iris_classifier_service.artifacts :
               a[2].loc = iris_classifier_service.class.loc
    /\ FirstSucceeded => Count("import2_class") = 0 /\ Count("import2_clf") = 0

C6_Witness ==
    /\ pc = "save"
    /\ CountReturned("import1_class") = 1
    /\ RaisedAt("import1_clf")
    /\ IrisClassifier.loc = SecondLocation
    /\ clf.loc = SecondLocation

\* C7: saved_path is bound only in a run whose last three statements are a
\* completed construct, pack and save; a failed run leaves it unbound and has
\* no completed save.
C7_SavedPathOnlyAfterSave ==
    /\ saved_path # Unbound =>
         /\ pc = "done"
         /\ Len(trace) >= 3
         /\ trace[Len(trace)] = [step |-> "save", outcome |-> Returned]
         /\ trace[Len(trace) - 1] = [step |-> "pack", outcome |-> Returned]
         /\ trace[Len(trace) - 2] = [step |-> "construct", outcome |-> Returned]
    /\ pc = "failed" =>
         /\ saved_path = Unbound
         /\ CountReturned("save") = 0

C7_Witness ==
    /\ pc = "failed" /\ LastStep = "save" /\ LastOutcome # Returned
    /\ saved_path = Unbound

\* C8: every run reaches a terminal state, completed with saved_path bound or
\* failed with an error, after at most two import attempts per name, one
\* construct, one pack and one save, and control never moves backwards.
C8_Terminates ==
    /\ [][Rank(pc') > Rank(pc)]_vars
    /\ [](\A s \in Steps : Count(s) <= 1)
    /\ <>(\/ pc = "done" /\ saved_path # Unbound
          \/ pc = "failed" /\ error # NoError)

C8_Witness ==
    /\ pc \in Terminal
    /\ Len(trace) = 7

====
